---- MODULE Spec2Model ----
(***************************************************************************)
(* uptimed: a host metrics sampler (src/main.rs).  main() checks the       *)
(* argument count, constructs one SysInfo (reading every metric source     *)
(* once), then loops forever: send() = refresh() + bind + serialize +      *)
(* send_to, followed by a 60 second sleep.                                 *)
(*                                                                         *)
(* Representation choices                                                  *)
(*  - A metric source is a record: st says whether the read succeeded and  *)
(*    whether the text parses, the other fields carry the numbers in the   *)
(*    text.  /proc/uptime and /proc/loadavg print two decimals, so their   *)
(*    numbers are carried in hundredths.                                   *)
(*  - An f32/f64 field is a record [k, v]: k = "num" with the (integral)   *)
(*    value v, or k = "nan" / k = "inf" for the results of x / 0.          *)
(*  - A u64 delta is carried as its two's-complement reading: d >= 0 is    *)
(*    the value d, d < 0 is the value 2^64 + d (a wrapped subtraction).    *)
(*  - A string that the program trims is a sequence of characters.         *)
(***************************************************************************)
EXTENDS Integers, Sequences, FiniteSets, TLC

\* ---------------------------------------------------------------- bounds
\* Largest value of an interface byte counter file.
MaxCounter == 2
\* The event counters sent / waits / samples saturate at this value.
MaxCycles == 2

\* ------------------------------------------------------- program constants
SleepSeconds == 60
StatsdPort == 8125
ArgCount == 5
UsageExitCode == 1

\* ------------------------------------------------------------- f32 / f64
Num(n) == [k |-> "num", v |-> n]
NaN == [k |-> "nan", v |-> 0]
Inf == [k |-> "inf", v |-> 0]

\* round(): nearest integer, halves away from zero, of n / d (n >= 0, d > 0).
Round(n, d) == (2 * n + d) \div (2 * d)

\* Significand widths of the two IEEE 754 binary formats the struct uses.
F32Bits == 24
F64Bits == 53

\* A positive finite float is [m, e]: the significand m as a sequence of
\* bits, most significant first, and the exponent e of its last bit; its
\* value is m * 2^e.  Sign, subnormals and overflow never occur here.
Zero == [m |-> << >>, e |-> 0]

\* The number of bits of n (0 <= n < 2^30).
BitLen(n) == CHOOSE k \in 0..30 : n < 2 ^ k /\ (k = 0 \/ 2 ^ (k - 1) <= n)

\* The last k bits of n, and n in binary without leading zeros.
BitsOfLen(n, k) == [i \in 1..k |-> (n \div 2 ^ (k - i)) % 2]
BitsOf(n) == BitsOfLen(n, BitLen(n))

\* Bit number pos of b counted from its last bit (pos = 0), 0 beyond b.
BitAt(b, pos) == IF pos < Len(b) THEN b[Len(b) - pos] ELSE 0

\* The ten bits of b starting at bit number pos, as a number.
Limb(b, pos) ==
    BitAt(b, pos) + 2 * BitAt(b, pos + 1) + 4 * BitAt(b, pos + 2)
    + 8 * BitAt(b, pos + 3) + 16 * BitAt(b, pos + 4) + 32 * BitAt(b, pos + 5)
    + 64 * BitAt(b, pos + 6) + 128 * BitAt(b, pos + 7)
    + 256 * BitAt(b, pos + 8) + 512 * BitAt(b, pos + 9)

\* The number a sequence of at most 30 bits stands for.
BitsToInt(b) ==
    Limb(b, 0) + 1024 * Limb(b, 10) + 1024 * 1024 * Limb(b, 20)

\* An integer converted to a float (exact for the integers met here).
FromInt(n) == IF n = 0 THEN Zero ELSE [m |-> BitsOf(n), e |-> 0]

\* The place of the first 1 of b, and b without its leading zeros.
FirstOne(b) ==
    CHOOSE i \in 1..Len(b) : b[i] = 1 /\ \A j \in 1..(i - 1) : b[j] = 0
Normal(b) == SubSeq(b, FirstOne(b), Len(b))

\* b + 1 on a sequence of bits: the last 0 becomes 1, the 1s after it 0.
LastZero(b) ==
    CHOOSE i \in 1..Len(b) : b[i] = 0 /\ \A j \in (i + 1)..Len(b) : b[j] = 1
IncrAt(b, z) ==
    [i \in 1..Len(b) |-> IF i < z THEN b[i] ELSE IF i = z THEN 1 ELSE 0]
Incr(b) ==
    IF \A i \in 1..Len(b) : b[i] = 1
    THEN [i \in 1..(Len(b) + 1) |-> IF i = 1 THEN 1 ELSE 0]
    ELSE IncrAt(b, LastZero(b))

\* Round to nearest, ties to even: whether q, followed by a nonzero rest
\* when sticky, is rounded up when cut to p bits.
RoundsUp(q, sticky, p) ==
    /\ q[p + 1] = 1
    /\ sticky \/ q[p] = 1 \/ \E i \in (p + 2)..Len(q) : q[i] = 1

\* The incremented significand inc, renormalised to p bits.
Renormal(inc, e, p) ==
    IF Len(inc) > p THEN [m |-> SubSeq(inc, 1, p), e |-> e + 1]
    ELSE [m |-> inc, e |-> e]

\* The exact result q * 2^e (plus a nonzero rest below the last bit when
\* sticky) rounded to p significant bits.
RoundNearestEven(q, e, sticky, p) ==
    IF Len(q) <= p THEN [m |-> q, e |-> e]
    ELSE IF RoundsUp(q, sticky, p)
    THEN Renormal(Incr(SubSeq(q, 1, p)), e + Len(q) - p, p)
    ELSE [m |-> SubSeq(q, 1, p), e |-> e + Len(q) - p]

\* b as base-1024 digits, lowest first, and back.
LimbsOf(b) == [j \in 1..((Len(b) + 9) \div 10) |-> Limb(b, 10 * (j - 1))]
BitsOfLimbs(l) ==
    [i \in 1..(10 * Len(l)) |->
        (l[(10 * Len(l) - i) \div 10 + 1] \div 2 ^ ((10 * Len(l) - i) % 10)) % 2]

\* limbs * k + carry.
RECURSIVE MulLimbs(_, _, _)
MulLimbs(limbs, k, carry) ==
    IF Len(limbs) = 0 THEN << carry >>
    ELSE << (Head(limbs) * k + carry) % 1024 >>
         \o MulLimbs(Tail(limbs), k, (Head(limbs) * k + carry) \div 1024)

\* b * k on a sequence of bits, k < 1024.
MulBits(b, k) == Normal(BitsOfLimbs(MulLimbs(LimbsOf(b), k, 0)))

\* x * k in precision p, k an integer that is exact in the format.
FMulInt(x, k, p) ==
    IF x = Zero THEN Zero
    ELSE RoundNearestEven(MulBits(x.m, k), x.e, FALSE, p)

\* 2^i modulo d.
Square(n) == n * n
RECURSIVE Pow2Mod(_, _)
Pow2Mod(i, d) ==
    IF i = 0 THEN 1 % d
    ELSE (Square(Pow2Mod(i \div 2, d)) * (1 + (i % 2))) % d

\* The bits of a quotient by d: those of its whole part, then `places`
\* bits of the long division of the remainder r.
QuotientBits(whole, r, d, places) ==
    [i \in 1..(Len(whole) + places) |->
        IF i <= Len(whole) THEN whole[i]
        ELSE (2 * ((r * Pow2Mod(i - Len(whole) - 1, d)) % d)) \div d]

\* The p + 1 bits of stream from its first 1 on, rounded to p bits; the
\* bit at place j has exponent e - j, rest tells of a remainder beyond.
CutAt(stream, first, rest, e, p) ==
    RoundNearestEven(SubSeq(stream, first, first + p), e - (first + p),
                     rest \/ \E i \in (first + p + 1)..Len(stream) :
                                 stream[i] = 1,
                     p)

DivWhole(whole, r, e, d, p, places) ==
    CutAt(QuotientBits(whole, r, d, places),
          FirstOne(QuotientBits(whole, r, d, places)),
          (r * Pow2Mod(places, d)) % d # 0, e + Len(whole), p)

\* x / d in precision p, d a positive integer that is exact in the format
\* and x a float of at most 30 significant bits.
FDivInt(x, d, p) ==
    IF x = Zero THEN Zero
    ELSE DivWhole(BitsOf(BitsToInt(x.m) \div d), BitsToInt(x.m) % d, x.e,
                  d, p, p + 2 + BitLen(d))

\* A conversion that drops the fraction instead of rounding.
FRound_truncating(x) ==
    IF x = Zero THEN 0
    ELSE IF x.e >= 0 THEN BitsToInt(x.m) * 2 ^ x.e
    ELSE IF Len(x.m) + x.e <= 0 THEN 0
    ELSE BitsToInt(SubSeq(x.m, 1, Len(x.m) + x.e))

\* round() of a float below 2^30: the nearest integer, halves away from
\* zero.
FRound(x) ==
    IF x = Zero THEN 0
    ELSE IF x.e >= 0 THEN BitsToInt(x.m) * 2 ^ x.e
    ELSE IF Len(x.m) + x.e < 0 THEN 0
    ELSE BitsToInt(SubSeq(x.m, 1, Len(x.m) + x.e)) + x.m[Len(x.m) + x.e + 1]

\* (n as f64 / d as f64 * 100.0).round(), lines 102 and 137.
percent_f64(n, d) ==
    IF d = 0
    THEN (IF n = 0 THEN NaN ELSE Inf)
    ELSE Num(FRound(FMulInt(FDivInt(FromInt(n), d, F64Bits), 100, F64Bits)))

\* (load_avg * 100f32 / cores).round(), line 124, load_avg being the f32
\* nearest to h hundredths (the parse of line 112).
scaled_f32(h, cores) ==
    IF cores = 0
    THEN (IF h = 0 THEN NaN ELSE Inf)
    ELSE Num(FRound(FDivInt(FMulInt(FDivInt(FromInt(h), 100, F32Bits),
                                    100, F32Bits), cores, F32Bits)))

\* ------------------------------------------------------ results of a read
Ok(v) == [ok |-> TRUE, v |-> v, msg |-> ""]
Panic(msg) == [ok |-> FALSE, v |-> Num(0), msg |-> msg]
PanicU64(msg) == [ok |-> FALSE, v |-> 0, msg |-> msg]
PanicStr(msg) == [ok |-> FALSE, v |-> "", msg |-> msg]

UnwrapErr == "called Result::unwrap() on an Err value"
SubOverflow == "attempt to subtract with overflow"

\* ---------------------------------------------------------- str::trim
IsSpace(c) == c \in {" ", "\n", "\t"}

RECURSIVE TrimStart(_)
TrimStart(s) ==
    IF s = <<>> THEN <<>>
    ELSE IF IsSpace(Head(s)) THEN TrimStart(Tail(s))
    ELSE s

RECURSIVE TrimEnd(_)
TrimEnd(s) ==
    IF s = <<>> THEN <<>>
    ELSE IF IsSpace(s[Len(s)]) THEN TrimEnd(SubSeq(s, 1, Len(s) - 1))
    ELSE s

Trim(s) == TrimEnd(TrimStart(s))

\* A sequence of characters as one string.
RECURSIVE Chars(_)
Chars(s) == IF s = <<>> THEN "" ELSE Head(s) \o Chars(Tail(s))

\* ------------------------------------------------------- metric sources
\* st = "unread" marks a source the program did not get to in this pass.
\* /proc/sys/kernel/hostname
HostnameFiles ==
    { [st |-> "unreadable", text |-> <<>>],
      [st |-> "ok", text |-> <<"h", "1", "\n">>] }
HostnameUnread == [st |-> "unread", text |-> <<>>]

\* /sys/class/net/<interface>/statistics/{r,t}x_bytes
CounterFiles ==
    { [st |-> "unreadable", n |-> 0], [st |-> "garbage", n |-> 0] }
    \cup { [st |-> "ok", n |-> c] : c \in 0..MaxCounter }
CounterUnread == [st |-> "unread", n |-> 0]

\* /proc/uptime, first field in hundredths of a second
UptimeFiles ==
    { [st |-> "unreadable", cs |-> 0], [st |-> "garbage", cs |-> 0],
      [st |-> "ok", cs |-> 150] }
UptimeUnread == [st |-> "unread", cs |-> 0]

\* /proc/meminfo, the MemTotal and MemAvailable lines
MeminfoFiles ==
    { [st |-> "unreadable", total |-> 0, avail |-> 0],
      [st |-> "garbage", total |-> 0, avail |-> 0],
      [st |-> "ok", total |-> 1000, avail |-> 200],
      [st |-> "ok", total |-> 0, avail |-> 0] }
MeminfoUnread == [st |-> "unread", total |-> 0, avail |-> 0]

\* /proc/loadavg, first field in hundredths
LoadavgFiles ==
    { [st |-> "unreadable", h |-> 0], [st |-> "garbage", h |-> 0],
      [st |-> "ok", h |-> 100] }
LoadavgUnread == [st |-> "unread", h |-> 0]

\* /proc/cpuinfo, the number of lines starting with "processor"
CpuinfoFiles ==
    { [st |-> "unreadable", processors |-> 0],
      [st |-> "ok", processors |-> 0],
      [st |-> "ok", processors |-> 4] }
CpuinfoUnread == [st |-> "unread", processors |-> 0]

\* statvfs(filesystem): the return value and f_bavail, f_blocks
StatvfsCalls ==
    { [st |-> "fail", bavail |-> 0, blocks |-> 0],
      [st |-> "ok", bavail |-> 50, blocks |-> 200] }
StatvfsUnread == [st |-> "unread", bavail |-> 0, blocks |-> 0]

\* Corner readings: quotients that lie exactly halfway between two whole
\* numbers (23 of 40 is 57.5 percent, a load of 1.06 on 4 cores is 26.5),
\* quotients above a half (2 of 3 is 66.67 percent, a load of 1.07 on 4
\* cores is 26.75), and a filesystem of no blocks.
MeminfoCorner ==
    { [st |-> "ok", total |-> 40, avail |-> 23],
      [st |-> "ok", total |-> 3, avail |-> 2] }
LoadavgCorner == { [st |-> "ok", h |-> 106], [st |-> "ok", h |-> 107] }
StatvfsCorner ==
    { [st |-> "ok", bavail |-> 23, blocks |-> 40],
      [st |-> "ok", bavail |-> 2, blocks |-> 3],
      [st |-> "ok", bavail |-> 0, blocks |-> 0] }

\* The float results, tabulated over the numbers the sources hold (@@ turns
\* each table into an explicit function, computed once).
PercentF64 ==
    [ r \in { << f.avail, f.total >> :
                 f \in MeminfoFiles \cup MeminfoCorner }
            \cup { << f.bavail, f.blocks >> :
                     f \in StatvfsCalls \cup StatvfsCorner }
      |-> percent_f64(r[1], r[2]) ] @@ << >>
ScaledF32 ==
    [ r \in (({ f.h : f \in LoadavgFiles \cup LoadavgCorner })
             \X ({1} \cup { g.processors : g \in CpuinfoFiles }))
      |-> scaled_f32(r[1], r[2]) ] @@ << >>

\* ------------------------------------------------------------- readers
get_hostname(f) ==
    IF f.st = "unreadable" THEN PanicStr("Unable to read hostname")
    ELSE Ok(Chars(Trim(f.text)))

\* A counter reader that falls back to 0 when the file cannot be read.
net_stats_default(f) == IF f.st = "ok" THEN Ok(f.n) ELSE Ok(0)

net_stats(f) ==
    IF f.st = "unreadable"
    THEN PanicU64("Unable to read statistics from provided network interface")
    ELSE IF f.st = "garbage" THEN Ok(0)
    ELSE Ok(f.n)

uptime(f) ==
    IF f.st = "unreadable" THEN Panic("Unable to read /proc/uptime")
    ELSE IF f.st = "garbage" THEN Ok(Num(0))
    ELSE Ok(Num(Round(f.cs, 100)))

\* A memory reader that falls back to 0 when a number does not parse.
avail_mem_lenient(f) ==
    IF f.st = "unreadable" THEN Panic("Unable to read /proc/meminfo")
    ELSE IF f.st = "garbage" THEN Ok(Num(0))
    ELSE Ok(PercentF64[<< f.avail, f.total >>])

avail_mem(f) ==
    IF f.st = "unreadable" THEN Panic("Unable to read /proc/meminfo")
    ELSE IF f.st = "garbage" THEN Panic(UnwrapErr)
    ELSE Ok(PercentF64[<< f.avail, f.total >>])

load(f, g) ==
    IF f.st = "unreadable" THEN Panic("Unable to read /proc/loadavg")
    ELSE IF f.st = "garbage" THEN Panic(UnwrapErr)
    ELSE IF g.st = "unreadable" THEN Panic("Unable to read /proc/cpuinfo")
    ELSE Ok(ScaledF32[<< f.h, g.processors >>])

\* A disk reader that treats a failed statvfs like the other sources.
disk_free_fatal(f) ==
    IF f.st = "fail" THEN Panic("Cannot access filesystem stats")
    ELSE Ok(PercentF64[<< f.bavail, f.blocks >>])

disk_free(f) ==
    IF f.st = "fail" THEN Ok(Num(0))
    ELSE Ok(PercentF64[<< f.bavail, f.blocks >>])

\* ------------------------------------------------------- one pass of reads
\* The sources in the order new() and refresh() read them.
NoReads ==
    [ hostname |-> HostnameUnread, rx |-> CounterUnread, tx |-> CounterUnread,
      uptime |-> UptimeUnread, meminfo |-> MeminfoUnread,
      loadavg |-> LoadavgUnread, cpuinfo |-> CpuinfoUnread,
      statvfs |-> StatvfsUnread ]

StOf(o) ==
    << o.hostname.st, o.rx.st, o.tx.st, o.uptime.st, o.meminfo.st,
       o.loadavg.st, o.cpuinfo.st, o.statvfs.st >>

\* Whether the program goes on after each read; load() reads /proc/cpuinfo
\* only once /proc/loadavg was read and parsed.
OkOf(o) ==
    << get_hostname(o.hostname).ok, net_stats(o.rx).ok, net_stats(o.tx).ok,
       uptime(o.uptime).ok, avail_mem(o.meminfo).ok,
       load(o.loadavg, [st |-> "ok", processors |-> 1]).ok,
       load(o.loadavg, o.cpuinfo).ok, disk_free(o.statvfs).ok >>

\* The pass is still running: no read performed so far panicked.
Alive(o) ==
    \A i \in 1..8 : StOf(o)[i] # "unread" => OkOf(o)[i]

\* Every pass of P that is still running reads `source` next and finds one
\* of `files`; a pass that panicked reads nothing more.
ThenRead(P, source, files) ==
    UNION { IF Alive(o)
            THEN { [o EXCEPT ![source] = f] : f \in files }
            ELSE { o } : o \in P }

\* The environment of a run is one of three families.  "traffic": the
\* interface counters take every value and failure, the other sources
\* their usual content.  "sources": the interface is idle, the other
\* sources take every content and failure.  "rounding": the interface is
\* idle, every source is readable, memory, load and filesystem take
\* their usual and their corner readings.
Environments == {"traffic", "sources", "rounding"}

\* The usual content of a source: a healthy host, hostname h1, up for 1.5
\* seconds, 200 of 1000 kB available, load 1.00 on 4 processors, 50 of 200
\* blocks free.
UsualReadings ==
    { [st |-> "ok", text |-> <<"h", "1", "\n">>],
      [st |-> "ok", cs |-> 150],
      [st |-> "ok", total |-> 1000, avail |-> 200],
      [st |-> "ok", h |-> 100],
      [st |-> "ok", processors |-> 4],
      [st |-> "ok", bavail |-> 50, blocks |-> 200] }
Usual(files) == files \cap UsualReadings

HostnameIn(e) == IF e = "sources" THEN HostnameFiles ELSE Usual(HostnameFiles)
CounterIn(e) == IF e = "traffic" THEN CounterFiles ELSE {[st |-> "ok", n |-> 0]}
UptimeIn(e) == IF e = "sources" THEN UptimeFiles ELSE Usual(UptimeFiles)
MeminfoIn(e) ==
    IF e = "sources" THEN MeminfoFiles
    ELSE IF e = "rounding" THEN Usual(MeminfoFiles) \cup MeminfoCorner
    ELSE Usual(MeminfoFiles)
LoadavgIn(e) ==
    IF e = "sources" THEN LoadavgFiles
    ELSE IF e = "rounding" THEN Usual(LoadavgFiles) \cup LoadavgCorner
    ELSE Usual(LoadavgFiles)
CpuinfoIn(e) == IF e = "sources" THEN CpuinfoFiles ELSE Usual(CpuinfoFiles)
StatvfsIn(e) ==
    IF e = "sources" THEN StatvfsCalls
    ELSE IF e = "rounding" THEN Usual(StatvfsCalls) \cup StatvfsCorner
    ELSE Usual(StatvfsCalls)

\* What refresh() can observe: rx, tx, uptime, meminfo, loadavg, cpuinfo,
\* statvfs, in this order.
RefreshReadsFrom(P, e) ==
    ThenRead(ThenRead(ThenRead(ThenRead(ThenRead(ThenRead(ThenRead(P,
        "rx", CounterIn(e)),
        "tx", CounterIn(e)),
        "uptime", UptimeIn(e)),
        "meminfo", MeminfoIn(e)),
        "loadavg", LoadavgIn(e)),
        "cpuinfo", CpuinfoIn(e)),
        "statvfs", StatvfsIn(e))

RefreshReads(e) == RefreshReadsFrom({NoReads}, e)

\* What new() can observe: the hostname first, then the same sources.
NewReads(e) == RefreshReadsFrom(ThenRead({NoReads}, "hostname", HostnameIn(e)), e)

\* The same sets, tabulated by environment.
RefreshPasses == [e \in Environments |-> RefreshReads(e)]
NewPasses == [e \in Environments |-> NewReads(e)]

\* A pass cut short after the two counter reads (subtraction overflow).
CutAfterCounters(o) ==
    [ NoReads EXCEPT !.rx = o.rx, !.tx = o.tx ]

\* ------------------------------------------------------------- SysInfo
NoInfo ==
    [ namespace |-> "", destination |-> "", interface |-> "",
      filesystem |-> "", hostname |-> "",
      last_seen_net_rx |-> 0, last_seen_net_tx |-> 0,
      net_rx |-> 0, net_tx |-> 0,
      uptime |-> Num(0), avail_mem |-> Num(0), load |-> Num(0),
      disk_free |-> Num(0) ]

\* The outcome of new() / refresh(): the struct, the panic message ("" when
\* the call returned) and the reads it performed.
Returned(self, o) == [info |-> self, fault |-> "", reads |-> o]
Aborted(self, msg, o) == [info |-> self, fault |-> msg, reads |-> o]

\* A delta that forgets the baseline: the raw counter.
sub_u64_raw(a, b, checks) == Ok(a)

\* A delta that is clamped to 0 when the counter went down.
sub_u64_saturating(a, b, checks) == Ok(IF a < b THEN 0 ELSE a - b)

\* u64 `a - b`: with overflow checks (debug profile) a panic when a < b,
\* without them (release profile) the wrapped difference.
sub_u64(a, b, checks) ==
    IF a < b /\ checks THEN PanicU64(SubOverflow) ELSE Ok(a - b)

\* A struct literal that starts the baselines at 0 instead of the readings.
SysInfoInit_zero_baseline(argv, hostname, rx, tx, up, am, ld, df) ==
    [ namespace |-> argv[3], destination |-> argv[2],
      interface |-> argv[5], filesystem |-> argv[4],
      hostname |-> hostname,
      last_seen_net_rx |-> 0, last_seen_net_tx |-> 0,
      net_rx |-> 0, net_tx |-> 0,
      uptime |-> up, avail_mem |-> am, load |-> ld, disk_free |-> df ]

\* The struct literal of new(), lines 27-41.
SysInfoInit(argv, hostname, rx, tx, up, am, ld, df) ==
    [ namespace |-> argv[3], destination |-> argv[2],
      interface |-> argv[5], filesystem |-> argv[4],
      hostname |-> hostname,
      last_seen_net_rx |-> rx, last_seen_net_tx |-> tx,
      net_rx |-> 0, net_tx |-> 0,
      uptime |-> up, avail_mem |-> am, load |-> ld, disk_free |-> df ]

new(argv, o) ==
    LET hostname == get_hostname(o.hostname)
        rx == net_stats(o.rx)
        tx == net_stats(o.tx)
        up == uptime(o.uptime)
        am == avail_mem(o.meminfo)
        ld == load(o.loadavg, o.cpuinfo)
        df == disk_free(o.statvfs)
    IN  IF ~hostname.ok THEN Aborted(NoInfo, hostname.msg, o)
        ELSE IF ~rx.ok THEN Aborted(NoInfo, rx.msg, o)
        ELSE IF ~tx.ok THEN Aborted(NoInfo, tx.msg, o)
        ELSE IF ~up.ok THEN Aborted(NoInfo, up.msg, o)
        ELSE IF ~am.ok THEN Aborted(NoInfo, am.msg, o)
        ELSE IF ~ld.ok THEN Aborted(NoInfo, ld.msg, o)
        ELSE IF ~df.ok THEN Aborted(NoInfo, df.msg, o)
        ELSE Returned(SysInfoInit(argv, hostname.v, rx.v, tx.v, up.v, am.v,
                                  ld.v, df.v), o)

\* A refresh that keeps its old baselines.
set_baselines_stale(self, rx, tx) == self

\* A refresh that also takes the interface name for the hostname.
set_baselines_and_hostname(self, rx, tx) ==
    [self EXCEPT !.last_seen_net_rx = rx, !.last_seen_net_tx = tx,
                 !.hostname = self.interface]

\* refresh(), lines 49-50: the readings become the baselines.
set_baselines(self, rx, tx) ==
    [self EXCEPT !.last_seen_net_rx = rx, !.last_seen_net_tx = tx]

\* A refresh that keeps the disk_free it already holds.
refresh_keeps_disk_free(self, o, checks) ==
    LET new_net_rx == net_stats(o.rx)
        new_net_tx == net_stats(o.tx)
        d_rx == sub_u64(new_net_rx.v, self.last_seen_net_rx, checks)
        s1 == [self EXCEPT !.net_rx = d_rx.v]
        d_tx == sub_u64(new_net_tx.v, self.last_seen_net_tx, checks)
        s2 == set_baselines([s1 EXCEPT !.net_tx = d_tx.v],
                            new_net_rx.v, new_net_tx.v)
        up == uptime(o.uptime)
        s3 == [s2 EXCEPT !.uptime = up.v]
        am == avail_mem(o.meminfo)
        s4 == [s3 EXCEPT !.avail_mem = am.v]
        ld == load(o.loadavg, o.cpuinfo)
        s5 == [s4 EXCEPT !.load = ld.v]
    IN  IF ~new_net_rx.ok THEN Aborted(self, new_net_rx.msg, o)
        ELSE IF ~new_net_tx.ok THEN Aborted(self, new_net_tx.msg, o)
        ELSE IF ~d_rx.ok THEN Aborted(self, d_rx.msg, CutAfterCounters(o))
        ELSE IF ~d_tx.ok THEN Aborted(s1, d_tx.msg, CutAfterCounters(o))
        ELSE IF ~up.ok THEN Aborted(s2, up.msg, o)
        ELSE IF ~am.ok THEN Aborted(s3, am.msg, o)
        ELSE IF ~ld.ok THEN Aborted(s4, ld.msg, o)
        ELSE Returned(s5, o)

\* refresh(), lines 44-55.
refresh(self, o, checks) ==
    LET new_net_rx == net_stats(o.rx)
        new_net_tx == net_stats(o.tx)
        d_rx == sub_u64(new_net_rx.v, self.last_seen_net_rx, checks)
        s1 == [self EXCEPT !.net_rx = d_rx.v]
        d_tx == sub_u64(new_net_tx.v, self.last_seen_net_tx, checks)
        s2 == set_baselines([s1 EXCEPT !.net_tx = d_tx.v],
                            new_net_rx.v, new_net_tx.v)
        up == uptime(o.uptime)
        s3 == [s2 EXCEPT !.uptime = up.v]
        am == avail_mem(o.meminfo)
        s4 == [s3 EXCEPT !.avail_mem = am.v]
        ld == load(o.loadavg, o.cpuinfo)
        s5 == [s4 EXCEPT !.load = ld.v]
        df == disk_free(o.statvfs)
        s6 == [s5 EXCEPT !.disk_free = df.v]
    IN  IF ~new_net_rx.ok THEN Aborted(self, new_net_rx.msg, o)
        ELSE IF ~new_net_tx.ok THEN Aborted(self, new_net_tx.msg, o)
        ELSE IF ~d_rx.ok THEN Aborted(self, d_rx.msg, CutAfterCounters(o))
        ELSE IF ~d_tx.ok THEN Aborted(s1, d_tx.msg, CutAfterCounters(o))
        ELSE IF ~up.ok THEN Aborted(s2, up.msg, o)
        ELSE IF ~am.ok THEN Aborted(s3, am.msg, o)
        ELSE IF ~ld.ok THEN Aborted(s4, ld.msg, o)
        ELSE IF ~df.ok THEN Aborted(s5, df.msg, o)
        ELSE Returned(s6, o)

\* ------------------------------------------------------------ Display
\* {} of a u64: a wrapped difference 2^64 + d = 18446744073709551616 + d
\* prints its digits (-16 <= d < 0 covers every counter value of the model).
DisplayU64(d) ==
    IF d >= 0 THEN ToString(d)
    ELSE IF d >= -6 THEN "1844674407370955161" \o ToString(6 + d)
    ELSE "1844674407370955160" \o ToString(16 + d)

\* {} of an f32/f64 holding an integral value, NaN or inf.
DisplayFloat(x) ==
    IF x.k = "nan" THEN "NaN"
    ELSE IF x.k = "inf" THEN "inf"
    ELSE ToString(x.v)

\* An encoder whose last line is not newline-terminated.
serialize_unterminated(self) ==
    LET prefix == self.namespace \o "." \o self.hostname
    IN  prefix \o ".net-rx:" \o DisplayU64(self.net_rx) \o "|g" \o "\n"
        \o prefix \o ".net-tx:" \o DisplayU64(self.net_tx) \o "|g" \o "\n"
        \o prefix \o ".uptime:" \o DisplayFloat(self.uptime) \o "|g" \o "\n"
        \o prefix \o ".availmem:" \o DisplayFloat(self.avail_mem) \o "|g" \o "\n"
        \o prefix \o ".diskfree:" \o DisplayFloat(self.disk_free) \o "|g" \o "\n"
        \o prefix \o ".load:" \o DisplayFloat(self.load) \o "|g"

\* serialize(), lines 144-155.
serialize(self) ==
    LET prefix == self.namespace \o "." \o self.hostname
    IN  prefix \o ".net-rx:" \o DisplayU64(self.net_rx) \o "|g" \o "\n"
        \o prefix \o ".net-tx:" \o DisplayU64(self.net_tx) \o "|g" \o "\n"
        \o prefix \o ".uptime:" \o DisplayFloat(self.uptime) \o "|g" \o "\n"
        \o prefix \o ".availmem:" \o DisplayFloat(self.avail_mem) \o "|g" \o "\n"
        \o prefix \o ".diskfree:" \o DisplayFloat(self.disk_free) \o "|g" \o "\n"
        \o prefix \o ".load:" \o DisplayFloat(self.load) \o "|g" \o "\n"

\* --------------------------------------------------------------- state
VARIABLES
    pc,               \* where main() is: "main", "loop" (top of the loop,
                      \* about to call send), "bind", "send_to", "sleep",
                      \* "exited" (usage), "panicked"
    args,             \* std::env::args(), the program name first
    overflow_checks,  \* build profile: TRUE = debug (arithmetic checks)
    env,              \* the family the metric sources of this run are in
    info,             \* the SysInfo, NoInfo until new() returned
    constructed,      \* whether new() returned
    obs,              \* the sources as read by the latest new() / refresh()
    open_sockets,     \* UdpSockets alive in the process
    datagram,         \* the last datagram handed to the network
    fault,            \* the panic message, "" while none
    exit_code,        \* process exit status once "exited", else 0
    usage_printed,    \* whether usage() wrote to stdout
    sent,             \* datagrams sent so far (saturating)
    waits,            \* sleeps completed so far (saturating)
    samples,          \* refreshes completed so far (saturating)
    cycle,            \* what the current loop iteration did so far
    since_read,       \* seconds slept since the counters were last read
    window,           \* seconds slept between the baseline read and the
                      \* counter read of the latest completed refresh
    acc,              \* the counter read by new() plus every delta a
                      \* refresh computed since: [rx, tx]
    mono,             \* whether no read so far was below its baseline: [rx, tx]
    gauges_changed    \* whether the latest completed refresh stored an
                      \* avail_mem, a load and a disk_free that all differ
                      \* from the values the struct held before it

vars ==
    << pc, args, overflow_checks, env, info, constructed, obs, open_sockets,
       datagram, fault, exit_code, usage_printed, sent, waits, samples,
       cycle, since_read, window, acc, mono, gauges_changed >>

config == << args, overflow_checks, env >>
counters == << sent, waits, samples >>
history == << acc, mono, gauges_changed >>

\* Argument vectors tried: too few, exactly the four parameters, too many.
ArgVectors ==
    { << "uptimed" >>,
      << "uptimed", "statsd", "ns", "/", "eth0" >>,
      << "uptimed", "statsd", "ns", "/", "eth0", "extra" >> }

NoDatagram == [to |-> "", payload |-> ""]

Inc(n) == IF n < MaxCycles THEN n + 1 ELSE n
Elapse(t) == IF t < MaxCycles * SleepSeconds THEN t + SleepSeconds ELSE t

Init ==
    /\ pc = "main"
    /\ args \in ArgVectors
    /\ overflow_checks \in BOOLEAN
    /\ env \in Environments
    /\ info = NoInfo
    /\ constructed = FALSE
    /\ obs = NoReads
    /\ open_sockets = 0
    /\ datagram = NoDatagram
    /\ fault = ""
    /\ exit_code = 0
    /\ usage_printed = FALSE
    /\ sent = 0
    /\ waits = 0
    /\ samples = 0
    /\ cycle = << >>
    /\ since_read = 0
    /\ window = 0
    /\ acc = [rx |-> 0, tx |-> 0]
    /\ mono = [rx |-> TRUE, tx |-> TRUE]
    /\ gauges_changed = FALSE

\* A failure that is reported and then retried at the next iteration.
Die_and_retry(msg) ==
    /\ pc' = "loop"
    /\ fault' = msg
    /\ open_sockets' = 0

\* A panic ends the process: the stack unwinds and every socket is dropped.
Die(msg) ==
    /\ pc' = "panicked"
    /\ fault' = msg
    /\ open_sockets' = 0

\* A usage exit that reports success.
MainUsage_status_zero ==
    /\ pc = "main"
    /\ Len(args) # ArgCount
    /\ usage_printed' = TRUE
    /\ exit_code' = 0
    /\ pc' = "exited"
    /\ UNCHANGED << config, info, constructed, obs, open_sockets, datagram,
                    fault, counters, cycle, since_read, window, history >>

\* main, lines 189-193: wrong argument count.
MainUsage ==
    /\ pc = "main"
    /\ Len(args) # ArgCount
    /\ usage_printed' = TRUE
    /\ exit_code' = UsageExitCode
    /\ pc' = "exited"
    /\ UNCHANGED << config, info, constructed, obs, open_sockets, datagram,
                    fault, counters, cycle, since_read, window, history >>

\* main, lines 189-199: four parameters, SysInfo::new.
MainNew ==
    /\ pc = "main"
    /\ Len(args) = ArgCount
    /\ \E o \in NewPasses[env] :
        LET r == new(args, o)
        IN  /\ obs' = r.reads
            /\ info' = r.info
            /\ IF r.fault = ""
               THEN /\ pc' = "loop"
                    /\ constructed' = TRUE
                    /\ acc' = [rx |-> r.info.last_seen_net_rx,
                               tx |-> r.info.last_seen_net_tx]
                    /\ UNCHANGED << fault, open_sockets >>
               ELSE /\ Die(r.fault)
                    /\ UNCHANGED << constructed, acc >>
    /\ since_read' = 0
    /\ UNCHANGED << config, datagram, exit_code, usage_printed, counters,
                    cycle, window, mono, gauges_changed >>

\* A send() that does not refresh first.
Refresh_skipped ==
    /\ pc = "loop"
    /\ pc' = "bind"
    /\ UNCHANGED << config, info, constructed, obs, open_sockets, datagram,
                    fault, exit_code, usage_printed, counters, cycle,
                    since_read, window, history >>

\* send, line 158: refresh.
Refresh ==
    /\ pc = "loop"
    /\ \E o \in RefreshPasses[env] :
        LET r == refresh(info, o, overflow_checks)
            rx == net_stats(o.rx).v
            tx == net_stats(o.tx).v
        IN  /\ obs' = r.reads
            /\ info' = r.info
            /\ IF r.fault = ""
               THEN /\ pc' = "bind"
                    /\ samples' = Inc(samples)
                    /\ cycle' = << "sample" >>
                    /\ window' = since_read
                    /\ since_read' = 0
                    /\ acc' = [rx |-> acc.rx + r.info.net_rx,
                               tx |-> acc.tx + r.info.net_tx]
                    /\ mono' = [rx |-> mono.rx /\ rx >= info.last_seen_net_rx,
                                tx |-> mono.tx /\ tx >= info.last_seen_net_tx]
                    /\ gauges_changed' = ( /\ r.info.avail_mem # info.avail_mem
                                           /\ r.info.load # info.load
                                           /\ r.info.disk_free # info.disk_free )
                    /\ UNCHANGED << fault, open_sockets >>
               ELSE /\ Die(r.fault)
                    /\ cycle' = << >>
                    /\ UNCHANGED << samples, window, since_read, history >>
    /\ UNCHANGED << config, constructed, datagram, exit_code, usage_printed,
                    sent, waits >>

\* send, line 159: UdpSocket::bind.
Bind ==
    /\ pc = "bind"
    /\ \E ok \in BOOLEAN :
        IF ok
        THEN /\ open_sockets' = open_sockets + 1
             /\ pc' = "send_to"
             /\ UNCHANGED fault
        ELSE Die("couldn't bind to address")
    /\ UNCHANGED << config, info, constructed, obs, datagram, exit_code,
                    usage_printed, counters, cycle, since_read, window,
                    history >>

\* A send that keeps its socket open after the datagram left.
SendTo_leaking ==
    /\ pc = "send_to"
    /\ \E ok \in BOOLEAN :
        IF ok
        THEN /\ datagram' = [to |-> info.destination \o ":" \o ToString(StatsdPort),
                             payload |-> serialize(info)]
             /\ sent' = Inc(sent)
             /\ cycle' = cycle \o << "encode", "send" >>
             /\ open_sockets' = open_sockets
             /\ pc' = "sleep"
             /\ UNCHANGED fault
        ELSE /\ Die("couldn't send data")
             /\ cycle' = cycle \o << "encode" >>
             /\ UNCHANGED << datagram, sent >>
    /\ UNCHANGED << config, info, constructed, obs, exit_code, usage_printed,
                    waits, samples, since_read, window, history >>

\* send, lines 160-166: serialize, send_to, and the socket dropped on return.
SendTo ==
    /\ pc = "send_to"
    /\ \E ok \in BOOLEAN :
        IF ok
        THEN /\ datagram' = [to |-> info.destination \o ":" \o ToString(StatsdPort),
                             payload |-> serialize(info)]
             /\ sent' = Inc(sent)
             /\ cycle' = cycle \o << "encode", "send" >>
             /\ open_sockets' = open_sockets - 1
             /\ pc' = "sleep"
             /\ UNCHANGED fault
        ELSE /\ Die("couldn't send data")
             /\ cycle' = cycle \o << "encode" >>
             /\ UNCHANGED << datagram, sent >>
    /\ UNCHANGED << config, info, constructed, obs, exit_code, usage_printed,
                    waits, samples, since_read, window, history >>

\* A main() that sleeps and then returns instead of looping.
Sleep_then_return ==
    /\ pc = "sleep"
    /\ waits' = Inc(waits)
    /\ since_read' = Elapse(since_read)
    /\ cycle' = cycle \o << "wait" >>
    /\ pc' = "exited"
    /\ UNCHANGED << config, info, constructed, obs, open_sockets, datagram,
                    fault, exit_code, usage_printed, sent, samples, window,
                    history >>

\* main, line 203: thread::sleep(60 s), then the next iteration.
Sleep ==
    /\ pc = "sleep"
    /\ waits' = Inc(waits)
    /\ since_read' = Elapse(since_read)
    /\ cycle' = cycle \o << "wait" >>
    /\ pc' = "loop"
    /\ UNCHANGED << config, info, constructed, obs, open_sockets, datagram,
                    fault, exit_code, usage_printed, sent, samples, window,
                    history >>

Next ==
    \/ MainUsage
    \/ MainNew
    \/ Refresh
    \/ Bind
    \/ SendTo
    \/ Sleep

Spec == Init /\ [][Next]_vars

\* The single thread always takes its next step: a read, a bind, a send or
\* a sleep returns.  The fair runs explored are those over an idle
\* interface, where every other source and the socket can still fail.
FairInit == Init /\ env = "sources"
FairSpec == FairInit /\ [][Next]_vars /\ WF_vars(Next)

\* ------------------------------------------------------------- claims
\* The value a counter file was read as.
Reading(f) == net_stats(f).v

\* Both counter files were read by the latest pass.
CountersRead(o) ==
    /\ o.rx.st \notin {"unread", "unreadable"}
    /\ o.tx.st \notin {"unread", "unreadable"}

\* C1: a sampling tick whose rx and tx readings are not below the stored
\* baselines sets each delta to reading minus the baseline as it was before
\* the tick, and leaves the baselines equal to the readings (so equal
\* readings give deltas of 0).
C1_TickDeltas ==
    [][ ( /\ pc = "loop"
          /\ CountersRead(obs')
          /\ Reading(obs'.rx) >= info.last_seen_net_rx
          /\ Reading(obs'.tx) >= info.last_seen_net_tx )
        => ( /\ info'.net_rx = Reading(obs'.rx) - info.last_seen_net_rx
             /\ info'.net_tx = Reading(obs'.tx) - info.last_seen_net_tx
             /\ info'.last_seen_net_rx = Reading(obs'.rx)
             /\ info'.last_seen_net_tx = Reading(obs'.tx) ) ]_vars

\* C1 witness: a completed tick read rx = 2 over a baseline of 1 and tx equal
\* to its baseline.
C1_Witness ==
    /\ pc = "bind"
    /\ samples >= 1
    /\ info.last_seen_net_rx = 2 /\ info.net_rx = 1
    /\ info.last_seen_net_tx = 1 /\ info.net_tx = 0

\* C2: while no reading was below its baseline, the construction reading
\* plus the sum of the deltas of all completed ticks equals the latest
\* reading, i.e. the deltas sum to (last reading - construction reading):
\* nothing is counted twice, nothing is skipped.
C2_DisjointWindows ==
    (samples >= 1 /\ pc \in {"loop", "bind", "send_to", "sleep"})
        => /\ mono.rx => ( /\ acc.rx = Reading(obs.rx)
                           /\ info.last_seen_net_rx = Reading(obs.rx) )
           /\ mono.tx => ( /\ acc.tx = Reading(obs.tx)
                           /\ info.last_seen_net_tx = Reading(obs.tx) )

\* C2 witness: at least two ticks, the last one with an rx delta of 1 that
\* ended at reading 2, the tx counter having moved too.
C2_Witness ==
    /\ samples >= 2
    /\ pc = "sleep"
    /\ mono.rx /\ mono.tx
    /\ info.net_rx = 1 /\ acc.rx = 2
    /\ info.net_tx = 1 /\ acc.tx = 1

\* The panic messages of the `expect`s on the metric sources and on the
\* socket.
ReadFaults ==
    { "Unable to read hostname",
      "Unable to read statistics from provided network interface",
      "Unable to read /proc/uptime", "Unable to read /proc/meminfo",
      "Unable to read /proc/loadavg", "Unable to read /proc/cpuinfo" }
SocketFaults == { "couldn't bind to address", "couldn't send data" }

Running == pc \in {"loop", "bind", "send_to", "sleep"}
Events(log) == { log[i] : i \in 1..Len(log) }

\* C3: when statvfs fails, at construction or in a cycle, the process does
\* not terminate for it: diskfree is 0, the other metrics hold what their
\* sources gave, the payload of that cycle is encoded from them and sent,
\* and the loop goes on (the only way to stop is a socket failure).
C3_StatvfsFailureIsNotFatal ==
    obs.statvfs.st = "fail"
        => /\ constructed
           /\ info.disk_free = Num(0)
           /\ info.uptime = uptime(obs.uptime).v
           /\ info.avail_mem = avail_mem(obs.meminfo).v
           /\ info.load = load(obs.loadavg, obs.cpuinfo).v
           /\ info.last_seen_net_rx = Reading(obs.rx)
           /\ info.last_seen_net_tx = Reading(obs.tx)
           /\ Running \/ (pc = "panicked" /\ fault \in SocketFaults)
           /\ Running => ENABLED Next
           /\ pc = "sleep"
                => /\ cycle = << "sample", "encode", "send" >>
                   /\ datagram.payload = serialize(info)

\* C3 witness: a datagram was sent in a cycle whose statvfs failed, after an
\* earlier cycle.
C3_Witness ==
    /\ pc = "sleep"
    /\ obs.statvfs.st = "fail"
    /\ sent >= 2
    /\ info.avail_mem = Num(20)

SomeUnreadable(o) == \E i \in 1..7 : StOf(o)[i] = "unreadable"

\* C4: when a required source (hostname, counters, uptime, meminfo,
\* loadavg, cpuinfo) cannot be read, at construction or in a cycle, the
\* process terminates there: nothing was sampled or sent in that cycle, no
\* socket is open, no datagram leaves, and no step follows.
C4_UnreadableIsFatal ==
    /\ [] ( SomeUnreadable(obs)
              => /\ pc = "panicked"
                 /\ fault \in ReadFaults
                 /\ open_sockets = 0
                 /\ cycle = << >> )
    /\ [][ SomeUnreadable(obs') => (sent' = sent /\ datagram' = datagram) ]_vars
    /\ [][ pc # "panicked" ]_vars

\* C4 witness: /proc/cpuinfo became unreadable in a cycle after two sends.
C4_Witness ==
    /\ pc = "panicked"
    /\ obs.cpuinfo.st = "unreadable"
    /\ sent >= 2

\* C5 as claimed: any required source whose content does not parse
\* terminates the process, and no datagram is sent for that cycle.
C5_UnparseableIsFatal ==
    ( \/ obs.rx.st = "garbage" \/ obs.tx.st = "garbage"
      \/ obs.uptime.st = "garbage" \/ obs.meminfo.st = "garbage"
      \/ obs.loadavg.st = "garbage" )
        => (pc = "panicked" /\ "send" \notin Events(cycle))

\* C5 as amended: unparseable content is fatal for /proc/meminfo and
\* /proc/loadavg only (nothing is sent in that cycle).  An unparseable
\* counter file or /proc/uptime is read as 0 and the pass goes on to the
\* next source; a /proc/cpuinfo without processor lines counts 0 cores and
\* the pass goes on with a load of NaN or inf.
C5_UnparseableByCase ==
    /\ (obs.meminfo.st = "garbage" \/ obs.loadavg.st = "garbage")
         => /\ pc = "panicked"
            /\ fault = UnwrapErr
            /\ open_sockets = 0
            /\ cycle = << >>
    /\ obs.rx.st = "garbage" => obs.tx.st # "unread"
    /\ (obs.rx.st = "garbage" /\ obs.uptime.st # "unread")
         => info.last_seen_net_rx = 0
    /\ (obs.tx.st = "garbage" /\ obs.uptime.st # "unread")
         => info.last_seen_net_tx = 0
    /\ (obs.tx.st = "garbage" /\ obs.uptime.st = "unread")
         => (pc = "panicked" /\ fault = SubOverflow)
    /\ obs.uptime.st = "garbage"
         => (obs.meminfo.st # "unread" /\ info.uptime = Num(0))
    /\ (obs.cpuinfo.st = "ok" /\ obs.cpuinfo.processors = 0)
         => (obs.statvfs.st # "unread" /\ info.load \in {NaN, Inf})

\* C5 witness: in a cycle after a send, an unparseable /proc/uptime was
\* read as 0 and the unparseable /proc/meminfo read next ended the process.
C5_Witness ==
    /\ pc = "panicked"
    /\ sent >= 1
    /\ obs.uptime.st = "garbage"
    /\ obs.meminfo.st = "garbage"
    /\ info.uptime = Num(0)

\* C6: a failed bind or send_to terminates the process: the step sends
\* nothing, leaves no socket, and no step (sample, encode, send, wait)
\* follows, so the payload of that cycle is never sent.
C6_SocketFailureIsFatal ==
    /\ [][ (fault' \in SocketFaults)
            => /\ pc' = "panicked"
               /\ sent' = sent
               /\ datagram' = datagram
               /\ open_sockets' = 0
               /\ "send" \notin Events(cycle') ]_vars
    /\ [][ pc # "panicked" ]_vars

\* C6 witness: send_to failed in a cycle after two datagrams were sent.
C6_Witness ==
    /\ pc = "panicked"
    /\ fault = "couldn't send data"
    /\ cycle = << "sample", "encode" >>
    /\ sent >= 2

\* C7: a loop iteration does sample, encode, send, wait, once each and in
\* this order: nothing is sent before the iteration sampled, and the
\* numbers of samples, sends and waits stay in step (one of each per
\* completed iteration, one wait and one sample between two sends).
C7_CycleOrder ==
    /\ pc = "loop"
         => /\ cycle = IF samples = 0 THEN << >>
                       ELSE << "sample", "encode", "send", "wait" >>
            /\ samples = sent /\ waits = sent
    /\ pc \in {"bind", "send_to"}
         => /\ cycle = << "sample" >>
            /\ samples = Inc(sent) /\ waits = sent
    /\ pc = "sleep"
         => /\ cycle = << "sample", "encode", "send" >>
            /\ samples = sent /\ sent = Inc(waits)
    /\ (pc = "panicked" /\ fault = "couldn't send data")
         => cycle = << "sample", "encode" >>

\* C7 witness: the second iteration has completed.
C7_Witness ==
    /\ pc = "loop"
    /\ cycle = << "sample", "encode", "send", "wait" >>
    /\ sent = 2 /\ waits = 2 /\ samples = 2

\* C8: the scheduler alternates between Sampling and Waiting and has no
\* terminal state of its own: while it runs a step is always possible, a
\* wait is always followed by the next sample, a sample by a wait unless a
\* fatal fault ends the process, and so datagrams are sent infinitely
\* often unless the process stops on a fault (or on the usage exit).
C8_LoopNeverStops ==
    /\ [] (Running => ENABLED Next)
    /\ (pc = "sleep") ~> (pc = "loop")
    /\ (pc = "loop") ~> (pc = "sleep" \/ pc = "panicked")
    /\ ([]<>(pc = "sleep") \/ <>(pc \in {"panicked", "exited"}))

\* C8 witness: back at the top of the loop after MaxCycles full iterations.
C8_Witness ==
    /\ pc = "loop"
    /\ waits = MaxCycles
    /\ sent = MaxCycles
    /\ fault = ""

\* C9: new() pre-populates the baselines and is no tick: once it returned,
\* main is at the top of the loop with nothing sent, no wait done, both
\* deltas 0 and the baselines equal to the counters it read; no wait
\* happens before the first sample and the first send; and the first
\* completed tick computes (first tick reading - construction reading) in
\* u64 arithmetic.
C9_ConstructionIsNotATick ==
    /\ [] ( (pc = "loop" /\ samples = 0)
              => /\ constructed
                 /\ sent = 0 /\ waits = 0
                 /\ datagram = NoDatagram
                 /\ cycle = << >>
                 /\ open_sockets = 0
                 /\ info.net_rx = 0 /\ info.net_tx = 0
                 /\ info.last_seen_net_rx = Reading(obs.rx)
                 /\ info.last_seen_net_tx = Reading(obs.tx) )
    /\ [] ( waits >= 1 => (samples >= 1 /\ sent >= 1) )
    /\ [][ (pc = "main" /\ constructed') => pc' = "loop" ]_vars
    /\ [][ (pc = "loop" /\ samples = 0 /\ pc' = "bind")
            => /\ info'.net_rx = Reading(obs'.rx) - Reading(obs.rx)
               /\ info'.net_tx = Reading(obs'.tx) - Reading(obs.tx) ]_vars

\* C9 witness: the first datagram is out before any wait; new() had read
\* rx = 1 and the first tick read rx = 2.
C9_Witness ==
    /\ pc = "sleep"
    /\ samples = 1 /\ sent = 1 /\ waits = 0
    /\ info.net_rx = 1 /\ info.last_seen_net_rx = 2

\* C10 as claimed (usage text, "Bytes received in the last minute"): for
\* every datagram sent, exactly one 60 second sleep lies between the
\* baseline read and the counter read its deltas come from.
C10_DeltaCoversLastMinute ==
    pc = "sleep" => window = SleepSeconds

\* One statsd gauge line, without its newline.
GaugeLine(namespace, hostname, metric, value) ==
    namespace \o "." \o hostname \o "." \o metric \o ":" \o value \o "|g"

\* The six lines the wire format asks for, in its order.
GaugeLines(self) ==
    << GaugeLine(self.namespace, self.hostname, "net-rx", DisplayU64(self.net_rx)),
       GaugeLine(self.namespace, self.hostname, "net-tx", DisplayU64(self.net_tx)),
       GaugeLine(self.namespace, self.hostname, "uptime", DisplayFloat(self.uptime)),
       GaugeLine(self.namespace, self.hostname, "availmem", DisplayFloat(self.avail_mem)),
       GaugeLine(self.namespace, self.hostname, "diskfree", DisplayFloat(self.disk_free)),
       GaugeLine(self.namespace, self.hostname, "load", DisplayFloat(self.load)) >>

RECURSIVE Terminated(_)
Terminated(lines) ==
    IF lines = << >> THEN "" ELSE Head(lines) \o "\n" \o Terminated(Tail(lines))

\* C11: for every snapshot the program reaches, serialize returns exactly
\* six newline-terminated lines <namespace>.<hostname>.<metric>:<value>|g in
\* the order net-rx, net-tx, uptime, availmem, diskfree, load, each value
\* being the snapshot's current value; the text depends on the snapshot
\* only, and it is the payload of the datagram sent in the cycle.
C11_SixGaugeLines ==
    constructed
        => /\ Len(GaugeLines(info)) = 6
           /\ serialize(info) = Terminated(GaugeLines(info))
           /\ \A other \in {info, [info EXCEPT !.last_seen_net_rx = 0]} :
                  GaugeLines(other) = GaugeLines(info)
                      => serialize(other) = serialize(info)
           /\ pc = "sleep" => datagram.payload = Terminated(GaugeLines(info))

\* C11 witness: a datagram whose six lines carry an rx delta of 1, uptime 2,
\* availmem 20, diskfree 25 and load 25 under the prefix ns.h1.
C11_Witness ==
    /\ pc = "sleep"
    /\ datagram.payload =
          "ns.h1.net-rx:1|g\nns.h1.net-tx:0|g\nns.h1.uptime:2|g\n"
          \o "ns.h1.availmem:20|g\nns.h1.diskfree:25|g\nns.h1.load:25|g\n"

\* The exact quotient n / d lies exactly halfway between two whole numbers.
Halfway(n, d) == (2 * n) % d = 0 /\ ((2 * n) \div d) % 2 = 1

\* The stored value x is the exact quotient n / d rounded, halves up.
RoundedUp(x, n, d) == x = Num(Round(n, d))

\* The stored value x is a whole number at most half a unit away from
\* n / d, and the rounded quotient unless n / d is exactly halfway.
NearestWhole(x, n, d) ==
    /\ x.k = "num"
    /\ x.v \in Nat
    /\ 2 * x.v * d - 2 * n \in (0 - d)..d
    /\ ~Halfway(n, d) => RoundedUp(x, n, d)

\* The latest pass read a memory total, a core count, a block count > 0.
MemoryRead == constructed /\ obs.meminfo.st = "ok" /\ obs.meminfo.total > 0
LoadRead ==
    /\ constructed
    /\ obs.loadavg.st = "ok"
    /\ obs.cpuinfo.st = "ok" /\ obs.cpuinfo.processors > 0
BlocksRead == constructed /\ obs.statvfs.st = "ok" /\ obs.statvfs.blocks > 0

\* C12 as claimed: for readings with total > 0, total blocks > 0 and core
\* count > 0 the stored values are round(available * 100 / total),
\* round(free_blocks * 100 / total_blocks) and
\* round(load_avg * 100 / core_count).
C12_StoresRoundedQuotient ==
    /\ MemoryRead
         => RoundedUp(info.avail_mem, obs.meminfo.avail * 100, obs.meminfo.total)
    /\ BlocksRead
         => RoundedUp(info.disk_free, obs.statvfs.bavail * 100, obs.statvfs.blocks)
    /\ LoadRead
         => RoundedUp(info.load, obs.loadavg.h, obs.cpuinfo.processors)

\* C12 as amended: for such readings each stored value is a whole number
\* at most half a unit away from the exact quotient (200 of 1000 gives 20,
\* 50 of 200 gives 25, load 1.00 on 4 cores gives 25), equal to the rounded
\* quotient unless the exact quotient lies exactly halfway between two whole
\* numbers; there the binary quotient can fall below the half and the lower
\* neighbour is stored.  The values are encoded without a fraction.
C12_StoresNearestWhole ==
    /\ MemoryRead
         => /\ NearestWhole(info.avail_mem, obs.meminfo.avail * 100,
                            obs.meminfo.total)
            /\ (obs.meminfo.avail = 200 /\ obs.meminfo.total = 1000)
                  => info.avail_mem = Num(20)
    /\ BlocksRead
         => /\ NearestWhole(info.disk_free, obs.statvfs.bavail * 100,
                            obs.statvfs.blocks)
            /\ (obs.statvfs.bavail = 50 /\ obs.statvfs.blocks = 200)
                  => info.disk_free = Num(25)
    /\ LoadRead
         => /\ NearestWhole(info.load, obs.loadavg.h, obs.cpuinfo.processors)
            /\ (obs.loadavg.h = 100 /\ obs.cpuinfo.processors = 4)
                  => info.load = Num(25)
    /\ (pc = "sleep" /\ MemoryRead /\ BlocksRead /\ LoadRead)
         => datagram.payload = Terminated(<<
                GaugeLine(info.namespace, info.hostname, "net-rx",
                          DisplayU64(info.net_rx)),
                GaugeLine(info.namespace, info.hostname, "net-tx",
                          DisplayU64(info.net_tx)),
                GaugeLine(info.namespace, info.hostname, "uptime",
                          DisplayFloat(info.uptime)),
                GaugeLine(info.namespace, info.hostname, "availmem",
                          ToString(info.avail_mem.v)),
                GaugeLine(info.namespace, info.hostname, "diskfree",
                          ToString(info.disk_free.v)),
                GaugeLine(info.namespace, info.hostname, "load",
                          ToString(info.load.v)) >>)

\* C12 witness: a datagram of a cycle that read 23 of 40 kB available
\* (57.5 percent, stored as 57), 2 of 3 blocks free (stored as 67) and a
\* load of 1.06 on 4 cores (26.5, stored as 26).
C12_Witness ==
    /\ pc = "sleep"
    /\ obs.meminfo.avail = 23 /\ obs.meminfo.total = 40
    /\ info.avail_mem = Num(57)
    /\ obs.statvfs.bavail = 2 /\ obs.statvfs.blocks = 3
    /\ info.disk_free = Num(67)
    /\ obs.loadavg.h = 106 /\ obs.cpuinfo.processors = 4
    /\ info.load = Num(26)

\* A percentage: a number in 0..100.
Percentage(x) == x.k = "num" /\ x.v \in 0..100

\* C13 as claimed: in every state of the snapshot and in every datagram
\* sent, the available-memory and free-disk values are in 0..100, for every
\* reading with available <= total and free blocks <= total blocks, a
\* total of 0 and a failed statvfs included.
C13_PercentagesInRange ==
    ( /\ constructed
      /\ obs.meminfo.avail <= obs.meminfo.total
      /\ obs.statvfs.bavail <= obs.statvfs.blocks )
        => /\ Percentage(info.avail_mem)
           /\ Percentage(info.disk_free)
           /\ pc = "sleep"
                => datagram.payload = Terminated(<<
                       GaugeLine(info.namespace, info.hostname, "net-rx",
                                 DisplayU64(info.net_rx)),
                       GaugeLine(info.namespace, info.hostname, "net-tx",
                                 DisplayU64(info.net_tx)),
                       GaugeLine(info.namespace, info.hostname, "uptime",
                                 DisplayFloat(info.uptime)),
                       GaugeLine(info.namespace, info.hostname, "availmem",
                                 ToString(info.avail_mem.v)),
                       GaugeLine(info.namespace, info.hostname, "diskfree",
                                 ToString(info.disk_free.v)),
                       GaugeLine(info.namespace, info.hostname, "load",
                                 DisplayFloat(info.load)) >>)

\* The positional parameters: the arguments after the program name.
Parameters == Len(args) - 1

\* C14: with a parameter count other than 4, fewer or more, the only step
\* is the usage exit with status 1: no source is ever read, no snapshot
\* constructed, no socket opened, no datagram sent.  With exactly 4
\* parameters there is no usage exit: main calls new(), which reads the
\* sources, and when new() returns the snapshot is constructed and main is
\* at the top of the loop, where the first sample is the next step.
C14_UsageOnWrongCount ==
    /\ [] ( Parameters # 4
              => /\ pc \in {"main", "exited"}
                 /\ obs = NoReads
                 /\ ~constructed /\ info = NoInfo
                 /\ open_sockets = 0
                 /\ datagram = NoDatagram /\ sent = 0 /\ samples = 0
                 /\ fault = ""
                 /\ pc = "main" => ENABLED MainUsage
                 /\ pc = "exited" => (usage_printed /\ exit_code = 1) )
    /\ [][ (pc = "main" /\ Parameters # 4)
            => (pc' = "exited" /\ usage_printed' /\ exit_code' = 1) ]_vars
    /\ [] ( Parameters = 4
              => /\ ~usage_printed /\ exit_code = 0 /\ pc # "exited"
                 /\ pc = "main" => ENABLED MainNew )
    /\ [][ (pc = "main" /\ Parameters = 4)
            => /\ obs' # NoReads
               /\ \/ (constructed' /\ pc' = "loop" /\ fault' = "")
                  \/ (~constructed' /\ pc' = "panicked"
                        /\ fault' \in ReadFaults \cup {UnwrapErr}) ]_vars
    /\ [] ( (pc = "loop" /\ samples = 0) => (constructed /\ ENABLED Refresh) )

\* C14 witness: five parameters, one more than four, ended in the usage
\* exit.
C14_Witness ==
    /\ Parameters = 5
    /\ pc = "exited"
    /\ usage_printed
    /\ exit_code = UsageExitCode

\* What a tick does with a reading below its baseline (d < 0 stands for
\* the u64 value 2^64 + d): the build with overflow checks panics in the
\* subtraction, nothing being bound or sent; the build without them
\* stores the wrapped difference.
Underflows(before, reading, after) ==
    IF overflow_checks
    THEN /\ pc' = "panicked"
         /\ fault' = SubOverflow
         /\ open_sockets' = 0
         /\ sent' = sent /\ datagram' = datagram
         /\ cycle' = << >>
    ELSE /\ after = reading - before
         /\ after < 0
         /\ DisplayU64(after) # "0"

\* C15: a tick that reads a counter (rx or tx; an unparseable file reads as
\* 0) below the stored baseline does not clamp the delta to 0 and does not
\* silently restart from the reading: the u64 subtraction underflows, so
\* the process aborts in the tick before a socket is bound or a datagram
\* sent, or the delta is (reading - baseline) mod 2^64, the reading becomes
\* the baseline, and the datagram of the cycle carries that value.
C15_DecreaseUnderflows ==
    /\ [][ (pc = "loop" /\ CountersRead(obs')
             /\ Reading(obs'.rx) < info.last_seen_net_rx)
            => Underflows(info.last_seen_net_rx, Reading(obs'.rx),
                          info'.net_rx) ]_vars
    /\ [][ (pc = "loop" /\ CountersRead(obs')
             /\ Reading(obs'.tx) < info.last_seen_net_tx)
            => Underflows(info.last_seen_net_tx, Reading(obs'.tx),
                          info'.net_tx) ]_vars
    /\ [][ (pc = "loop" /\ pc' = "bind")
            => /\ info'.last_seen_net_rx = Reading(obs'.rx)
               /\ info'.last_seen_net_tx = Reading(obs'.tx) ]_vars
    /\ [] ( (pc = "sleep" /\ (info.net_rx < 0 \/ info.net_tx < 0))
              => /\ ~overflow_checks
                 /\ datagram.payload = Terminated(GaugeLines(info)) )

\* C15 witness: without overflow checks the rx counter went from 1 to 0,
\* and the datagram of that cycle reports 2^64 - 1 received bytes.
C15_Witness ==
    /\ pc = "sleep"
    /\ ~overflow_checks
    /\ info.net_rx = 0 - 1
    /\ info.last_seen_net_rx = 0
    /\ datagram.payload =
          "ns.h1.net-rx:18446744073709551615|g\nns.h1.net-tx:0|g\n"
          \o "ns.h1.uptime:2|g\nns.h1.availmem:20|g\n"
          \o "ns.h1.diskfree:25|g\nns.h1.load:25|g\n"

\* The configuration fields of a snapshot.
Configuration(self) ==
    << self.namespace, self.destination, self.interface, self.filesystem,
       self.hostname >>

\* C16: namespace, destination, interface, filesystem and hostname are set
\* by new() (from the four parameters and the trimmed hostname file) and no
\* later step changes them; the hostname file is read by new() and by no
\* later pass; so every datagram goes to <destination>:8125 of the
\* parameters and carries the prefix <namespace>.<hostname> fixed at
\* construction.
C16_ConfigurationIsFixed ==
    /\ [][ (pc = "main" /\ constructed')
            => /\ obs'.hostname.st = "ok"
               /\ Configuration(info')
                    = << args[3], args[2], args[5], args[4],
                         Chars(Trim(obs'.hostname.text)) >> ]_vars
    /\ [][ constructed => Configuration(info') = Configuration(info) ]_vars
    /\ [][ (constructed /\ obs' # obs) => obs'.hostname.st = "unread" ]_vars
    /\ [][ (datagram' # datagram)
            => /\ datagram'.to = args[2] \o ":8125"
               /\ datagram'.payload
                    = Terminated(GaugeLines(
                          [info' EXCEPT !.namespace = args[3],
                                        !.hostname = "h1"]))
               /\ datagram # NoDatagram => datagram'.to = datagram.to ]_vars

\* C16 witness: the second datagram of a run went to statsd:8125 under
\* the prefix ns.h1, the hostname file having been read by new() only.
C16_Witness ==
    /\ pc = "sleep"
    /\ sent >= 2
    /\ obs.hostname.st = "unread"
    /\ Configuration(info) = << "ns", "statsd", "eth0", "/", "h1" >>
    /\ datagram.to = "statsd:8125"

\* C17: the socket lives within one send: never more than one is open; one
\* is opened only by the bind that follows the completed sample of the
\* same cycle; a datagram leaves only through it; and none is open at the
\* top of the loop (sampling), during the sleep (Waiting), or once the
\* process has panicked or exited.
C17_SocketScopedToSend ==
    /\ [] ( open_sockets \in {0, 1} )
    /\ [] ( open_sockets = 1
              => /\ pc = "send_to"
                 /\ cycle = << "sample" >>
                 /\ samples = Inc(sent) )
    /\ [] ( pc \in {"main", "loop", "bind", "sleep", "panicked", "exited"}
              => open_sockets = 0 )
    /\ [][ open_sockets' > open_sockets
            => (pc = "bind" /\ cycle = << "sample" >> /\ pc' = "send_to") ]_vars
    /\ [][ datagram' # datagram
            => (open_sockets = 1 /\ open_sockets' = 0) ]_vars

\* C17 witness: the socket of the third cycle is open, the datagrams of the
\* first two cycles having left through sockets that are closed.
C17_Witness ==
    /\ pc = "send_to"
    /\ open_sockets = 1
    /\ sent >= 2
    /\ waits >= 2

\* The pass o read every source of refresh(), and not the hostname.
RefreshPass(o) ==
    /\ o.hostname.st = "unread"
    /\ \A i \in 2..8 : StOf(o)[i] # "unread"

\* The four gauges as the readers compute them from the pass o.
GaugesOf(o) ==
    << uptime(o.uptime).v, avail_mem(o.meminfo).v,
       load(o.loadavg, o.cpuinfo).v, disk_free(o.statvfs).v >>

\* C18: every datagram is the encoding of one cycle's sample.  A completed
\* sample reads all seven sources of refresh() and stores the two deltas
\* of its counter readings and the four gauges of its other readings;
\* bind and send_to leave snapshot and readings alone; the payload sent
\* is the encoding of that snapshot.  So no datagram carries a gauge read
\* at construction or in an earlier cycle.
C18_DatagramIsFresh ==
    /\ [][ (pc = "loop" /\ pc' = "bind")
            => /\ RefreshPass(obs')
               /\ info'.net_rx = Reading(obs'.rx) - info.last_seen_net_rx
               /\ info'.net_tx = Reading(obs'.tx) - info.last_seen_net_tx
               /\ << info'.uptime, info'.avail_mem, info'.load,
                     info'.disk_free >> = GaugesOf(obs') ]_vars
    /\ [][ (pc \in {"bind", "send_to"})
            => (info' = info /\ obs' = obs) ]_vars
    /\ [][ datagram' # datagram
            => /\ pc = "send_to" /\ cycle = << "sample" >>
               /\ datagram'.payload = Terminated(GaugeLines(info)) ]_vars
    /\ [] ( pc = "sleep"
              => /\ RefreshPass(obs)
                 /\ samples >= 1
                 /\ << info.uptime, info.avail_mem, info.load,
                       info.disk_free >> = GaugesOf(obs)
                 /\ datagram.payload = Terminated(GaugeLines(info)) )

\* C18 witness: the first datagram of a run, sent before any wait, carries
\* availmem 57, diskfree 67 and load 26 as read by the first sample, each
\* different from the value new() had stored.
C18_Witness ==
    /\ pc = "sleep"
    /\ sent = 1 /\ waits = 0
    /\ gauges_changed
    /\ datagram.payload =
          "ns.h1.net-rx:0|g\nns.h1.net-tx:0|g\nns.h1.uptime:2|g\n"
          \o "ns.h1.availmem:57|g\nns.h1.diskfree:67|g\nns.h1.load:26|g\n"

====
